---- MODULE Spec2Model ----
(***************************************************************************)
(* A model of the binary codecs of model-essence-viewer:                   *)
(*   - MEFParser            (src/src/utils/mefParser.ts)                   *)
(*   - OBJToMEFConverter    (src/unnamed/part_002, lines 18-238)           *)
(*   - RESArchiveBuilder / RESArchiveReader (src/unnamed/part_002,         *)
(*     lines 273-478)                                                      *)
(* Buffers are sequences of bytes (0..255); the byte at offset o of a      *)
(* buffer b is b[o + 1].  A float32 is identified by its IEEE-754 bit      *)
(* pattern, written as the signed 32-bit integer with the same bits.       *)
(***************************************************************************)
EXTENDS Integers, Sequences, FiniteSets, TLC

VARIABLES
    \* ---- MEFParser instance (mefParser.ts:43-53) and the locals of parse()
    data,            \* this.data, the ArrayBuffer
    offset,          \* this.offset, the cursor
    debugInfo,       \* this.debugInfo, the kinds of the messages logged
    pc,              \* where parse() is: none, ready, chunks, pass1, pass2, finish, done
    fileSize,        \* const fileSize (line 200)
    chunks,          \* const chunks: MEFChunk[] (line 211)
    loopIters,       \* number of times the body of the chunk loop was entered
    ci,              \* position of the for-of loops of lines 270 and 285
    modelInfo,       \* let modelInfo (line 258)
    current,         \* current<Category>Vertices / current<Category>VertexCount
    meshes,          \* const meshes (line 255)
    totalVertices,   \* line 256
    totalTriangles,  \* line 257
    meshCounter,     \* line 267
    outcome,         \* how parse() ended: none, Model, or the error thrown
    lastFace,        \* what the last face chunk processed did (observation only)
    returned,        \* the Models the earlier parse() calls on the instance returned
    twin,            \* a second buffer to parse, and what parse did on the first
    \* ---- OBJToMEFConverter instance
    objContent,      \* the argument of convertToMEF, as a list of OBJ lines
    objData,         \* this.objData
    mefBuffer,       \* the ArrayBuffer convertToMEF returned
    convOutcome,     \* none, ok, or the error convertToMEF threw
    convCalls,       \* number of convertToMEF calls made on the instance
    \* ---- RESArchiveBuilder / RESArchiveReader
    toAdd,           \* the (name, bytes) pairs still to be passed to addFile
    added,           \* the (name, bytes) pairs passed to addFile so far
    files,           \* RESArchiveBuilder.files
    archiveBuffer,   \* the ArrayBuffer build() returned
    resArchive,      \* the files and totalSize of RESArchiveReader.parse
    resOffset,       \* let offset of RESArchiveReader.parse
    resPc,           \* adding, built, reading, done
    resWarning,      \* the error RESArchiveReader.parse passed to console.warn
    resOutcome,      \* none, ok, or the error RESArchiveReader.parse threw
    \* ---- detectVertexFormat applied on its own
    detectIn,        \* chunkSize
    detectOut        \* the value returned

parserVars == <<data, offset, debugInfo, pc, fileSize, chunks, loopIters, ci,
                modelInfo, current, meshes, totalVertices, totalTriangles,
                meshCounter, outcome, lastFace, returned, twin>>
convVars == <<objContent, objData, mefBuffer, convOutcome, convCalls>>
resVars == <<toAdd, added, files, archiveBuffer, resArchive, resOffset, resPc,
             resWarning, resOutcome>>
detVars == <<detectIn, detectOut>>
vars == <<parserVars, convVars, resVars, detVars>>

(***************************************************************************)
(* Bytes and little-endian numbers                                         *)
(***************************************************************************)
Zeros(n) == [i \in 1..n |-> 0]

\* view.setInt32(offset, value, true): the 4 bytes of a signed 32-bit value
Int32Bytes(v) ==
    LET w == IF v < 0 THEN v + 2147483647 + 1 ELSE v
        hi == (w \div 16777216) + (IF v < 0 THEN 128 ELSE 0)
    IN  <<w % 256, (w \div 256) % 256, (w \div 65536) % 256, hi>>

\* view.setUint16(offset, value, true): value is taken modulo 2^16
Uint16Bytes(v) ==
    LET w == v % 65536
    IN  <<w % 256, w \div 256>>

\* view.getInt32(o, true)
GetInt32(buf, o) ==
    buf[o + 1] + 256 * buf[o + 2] + 65536 * buf[o + 3]
      + 16777216 * (IF buf[o + 4] >= 128 THEN buf[o + 4] - 256 ELSE buf[o + 4])

\* view.getUint16(o, true)
GetUint16(buf, o) == buf[o + 1] + 256 * buf[o + 2]

\* view.getFloat32(o, true): the float32 stored at o (its bit pattern)
GetFloat32(buf, o) == GetInt32(buf, o)

\* new Uint8Array(buf, o, n) / buf.slice(o, o + n): n bytes from offset o
Slice(buf, o, n) == [i \in 1..n |-> buf[o + i]]

\* Math.fround of a small integer, as IEEE-754 single-precision bytes
\* (DataView.setFloat32): sign, biased exponent, 23-bit mantissa
Float32Bytes(n) ==
    IF n = 0 THEN <<0, 0, 0, 0>>
    ELSE LET a == IF n < 0 THEN -n ELSE n
             e == CHOOSE k \in 0..23 : 2^k <= a /\ a < 2^(k + 1)
             m == (a - 2^e) * 2^(23 - e)
             ex == 127 + e
         IN  <<m % 256, (m \div 256) % 256,
               (m \div 65536) + 128 * (ex % 2),
               (ex \div 2) + (IF n < 0 THEN 128 ELSE 0)>>

Float32Bits(n) == GetInt32(Float32Bytes(n), 0)

(***************************************************************************)
(* Chunk tags (String.fromCharCode of 4 bytes, compared with ===)          *)
(***************************************************************************)
ILFF == <<73, 76, 70, 70>>
XTRV == <<88, 84, 82, 86>>
XTVC == <<88, 84, 86, 67>>
XTVS == <<88, 84, 86, 83>>
ECAF == <<69, 67, 65, 70>>
ECFC == <<69, 67, 70, 67>>
CAFS == <<67, 65, 70, 83>>
HSEM == <<72, 83, 69, 77>>
D3DR == <<68, 51, 68, 82>>

Categories == {"render", "collision", "shadow"}
VertexTag(cat) ==
    CASE cat = "render" -> XTRV [] cat = "collision" -> XTVC [] OTHER -> XTVS
\* mutant of FaceTag: the face tags of render and collision are exchanged
FaceTag_Swapped(cat) ==
    CASE cat = "render" -> ECFC [] cat = "collision" -> ECAF [] OTHER -> CAFS

FaceTag(cat) ==
    CASE cat = "render" -> ECAF [] cat = "collision" -> ECFC [] OTHER -> CAFS
\* bytes per triangle record: faceCount = chunk.size / 6 (ECAF, CAFS) or / 8 (ECFC)
FaceRecordSize(cat) == IF cat = "collision" THEN 8 ELSE 6
\* this.seek(2, true) after each triangle of an ECFC chunk
FacePadding(cat) == IF cat = "collision" THEN 2 ELSE 0

(***************************************************************************)
(* MEFParser.detectVertexFormat (mefParser.ts:108-147)                     *)
(***************************************************************************)
\* mutant of formats: the 16-byte stride is tried first
formats_Prefer16 ==
    << [stride |-> 16, format |-> "pos_uv_basic"],
       [stride |-> 32, format |-> "rigid_full"],
       [stride |-> 24, format |-> "pos_normal"],
       [stride |-> 20, format |-> "lightmap"],
       [stride |-> 12, format |-> "position_only"] >>

formats ==
    << [stride |-> 32, format |-> "rigid_full"],
       [stride |-> 24, format |-> "pos_normal"],
       [stride |-> 20, format |-> "lightmap"],
       [stride |-> 16, format |-> "pos_uv_basic"],
       [stride |-> 12, format |-> "position_only"] >>

\* the value null
NoFormat == [stride |-> 0, vertexCount |-> 0, format |-> "null"]

\* the test of lines 128-130 for one entry of formats
FormatIsValid(chunkSize, fmt) ==
    /\ fmt.stride > 0
    /\ chunkSize % fmt.stride = 0
    /\ chunkSize \div fmt.stride > 0
    /\ chunkSize \div fmt.stride < 2000000

\* the array validFormats after the loop of lines 127-134
validFormats(chunkSize) ==
    LET Valid(fmt) == FormatIsValid(chunkSize, fmt)
        kept == SelectSeq(formats, Valid)
    IN  [i \in 1..Len(kept) |->
            [stride |-> kept[i].stride,
             vertexCount |-> chunkSize \div kept[i].stride,
             format |-> kept[i].format]]

detectVertexFormat(chunkSize) ==
    IF Len(validFormats(chunkSize)) = 0
    THEN NoFormat
    ELSE validFormats(chunkSize)[1]

(***************************************************************************)
(* MEFParser: the cursor (mefParser.ts:60-102)                             *)
(***************************************************************************)
\* the guard of readBytes / readInt / readUint16: no throw
CanRead(off, count, buf) == off >= 0 /\ off + count <= Len(buf)

\* the check of seek (line 99) on the position already assigned
SeekOk(pos, buf) == ~(pos < 0 \/ pos > Len(buf))

Log(msg) == Append(debugInfo, msg)

(***************************************************************************)
(* MEFParser.parse (mefParser.ts:186-525), one action per step             *)
(***************************************************************************)
NoPending == [vertices |-> <<>>, isSet |-> FALSE, count |-> 0]
NoFace == [cat |-> "none", chunk |-> 0, pendingCount |-> 0, ok |-> TRUE,
           indices |-> <<>>, emitted |-> FALSE, firstRead |-> 0, endRead |-> 0,
           iterations |-> 0]
EmptyInfo == [k \in {} |-> 0]

\* a bound of the model: the chunk loop is cut off after this many iterations
MaxLoopIters == 6

\* mutant of TooSmall: only the signature is required to fit
TooSmall_SignatureOnly(buf) == Len(buf) < 4

\* line 190: the buffer cannot hold the signature and the declared size
TooSmall(buf) == Len(buf) < 8

\* mutant of HeaderFits: only the 4-byte tag is required to fit
HeaderFits_TagOnly(chunkOffset, buf) == ~(chunkOffset + 4 > Len(buf))

\* line 216 negated: a whole 16-byte chunk header lies before the end of the buffer
HeaderFits(chunkOffset, buf) == ~(chunkOffset + 16 > Len(buf))

\* lines 186-208: the size and signature checks, fileSize, the 12-byte skip
ParseBegin ==
    /\ UNCHANGED <<convVars, resVars, detVars, returned, twin>>
    /\ pc = "ready"
    /\ UNCHANGED <<data, chunks, loopIters, ci, modelInfo, current, meshes,
                   totalVertices, totalTriangles, meshCounter, lastFace>>
    /\ IF TooSmall(data)
       THEN /\ outcome' = "TooSmall"
            /\ pc' = "done"
            /\ debugInfo' = <<>>
            /\ UNCHANGED <<offset, fileSize>>
       ELSE IF ~CanRead(offset, 4, data)
       THEN /\ outcome' = "ReadBeyond"
            /\ pc' = "done"
            /\ debugInfo' = <<>>
            /\ UNCHANGED <<offset, fileSize>>
       ELSE IF Slice(data, offset, 4) # ILFF
       THEN /\ outcome' = "BadMagic"
            /\ pc' = "done"
            /\ debugInfo' = <<>>
            /\ offset' = offset + 4
            /\ UNCHANGED fileSize
       ELSE IF ~CanRead(offset + 4, 4, data)
       THEN /\ outcome' = "ReadBeyond"
            /\ pc' = "done"
            /\ debugInfo' = <<>>
            /\ offset' = offset + 4
            /\ UNCHANGED fileSize
       ELSE /\ fileSize' = GetInt32(data, offset + 4)
            /\ offset' = offset + 8 + 12
            /\ debugInfo' = IF SeekOk(offset + 8 + 12, data)
                            THEN <<"File size">>
                            ELSE <<"File size", "Could not skip OCEM block">>
            /\ pc' = "chunks"
            /\ UNCHANGED outcome

\* the MEFChunk read at the cursor (lines 221-231)
ChunkAt(buf, chunkOffset) ==
    [name |-> Slice(buf, chunkOffset, 4),
     offset |-> chunkOffset,
     size |-> GetInt32(buf, chunkOffset + 4),
     next |-> GetInt32(buf, chunkOffset + 12)]

\* mutant of NextHeaderOffset: next is taken as an offset from the start of
\* the buffer
NextHeaderOffset_Absolute(position, next) == next

\* line 247, this.seek(chunk.next - 16, true): the position the cursor, at
\* position after the header, is moved to
NextHeaderOffset(position, next) == position + (next - 16)

\* lines 212-252: one evaluation of the while condition and, if it holds, one
\* execution of the loop body
ReadChunk ==
    /\ UNCHANGED <<convVars, resVars, detVars, returned, twin>>
    /\ pc = "chunks"
    /\ loopIters < MaxLoopIters
    /\ UNCHANGED <<data, fileSize, modelInfo, current, meshes, totalVertices,
                   totalTriangles, meshCounter, lastFace>>
    /\ IF ~(offset < fileSize /\ offset < Len(data))
       THEN /\ pc' = "pass1"
            /\ ci' = 1
            /\ UNCHANGED <<offset, chunks, loopIters, debugInfo, outcome>>
       ELSE IF ~HeaderFits(offset, data)
       THEN /\ pc' = "pass1"
            /\ ci' = 1
            /\ loopIters' = loopIters + 1
            /\ debugInfo' = Log("Chunk header would exceed buffer")
            /\ UNCHANGED <<offset, chunks, outcome>>
       ELSE IF ~CanRead(offset, 16, data)
       THEN \* readString / readInt of lines 221-224 throw, outside any try
            /\ pc' = "done"
            /\ outcome' = "ReadBeyond"
            /\ loopIters' = loopIters + 1
            /\ offset' = offset + 4 * (CHOOSE k \in 0..3 :
                              /\ CanRead(offset, 4 * k, data)
                              /\ ~CanRead(offset, 4 * (k + 1), data))
            /\ UNCHANGED <<ci, chunks, debugInfo>>
       ELSE LET chunk == ChunkAt(data, offset)
                warn == IF chunk.offset + 16 + chunk.size > Len(data)
                        THEN <<"Chunk", "payload exceeds buffer">>
                        ELSE <<"Chunk">>
                target == NextHeaderOffset(offset + 16, chunk.next)
            IN  /\ chunks' = Append(chunks, chunk)
                /\ UNCHANGED outcome
                /\ loopIters' = loopIters + 1
                /\ ci' = 1
                /\ IF chunk.next = 0
                   THEN /\ offset' = offset + 16
                        /\ debugInfo' = debugInfo \o warn
                        /\ pc' = "pass1"
                   ELSE /\ offset' = target
                        /\ IF SeekOk(target, data)
                           THEN /\ debugInfo' = debugInfo \o warn
                                /\ pc' = "chunks"
                           ELSE /\ debugInfo' = debugInfo \o warn
                                        \o <<"Could not seek to next chunk">>
                                /\ pc' = "pass1"

\* parseHSEMChunk (lines 149-165): the info returned, or EmptyInfo for null
parseHSEMChunk(buf, chunk) ==
    IF chunk.size < 16 THEN EmptyInfo
    ELSE IF ~SeekOk(chunk.offset + 16, buf) THEN EmptyInfo
    ELSE IF ~CanRead(chunk.offset + 16, 4, buf) THEN EmptyInfo
    ELSE [k \in {"modelType"} |-> GetInt32(buf, chunk.offset + 16)]

\* parseD3DRChunk (lines 167-184)
parseD3DRChunk(buf, chunk) ==
    IF chunk.size < 8 THEN EmptyInfo
    ELSE IF ~SeekOk(chunk.offset + 16, buf) THEN EmptyInfo
    ELSE IF ~CanRead(chunk.offset + 16, 8, buf) THEN EmptyInfo
    ELSE [k \in {"vertexCount", "faceCount"} |->
            IF k = "faceCount" THEN GetInt32(buf, chunk.offset + 16)
            ELSE GetInt32(buf, chunk.offset + 20)]

\* the cursor after parseHSEMChunk / parseD3DRChunk read `count` bytes of ints
InfoCursor(buf, chunk, minSize, count, off) ==
    IF chunk.size < minSize THEN off
    ELSE IF ~SeekOk(chunk.offset + 16, buf) THEN chunk.offset + 16
    ELSE LET p == chunk.offset + 16
             n == CHOOSE k \in 0..(count \div 4) :
                     /\ CanRead(p, 4 * k, buf)
                     /\ (k = count \div 4 \/ ~CanRead(p, 4 * (k + 1), buf))
         IN  p + 4 * n

\* lines 270-282: one iteration of the first pass
FirstPassStep ==
    /\ UNCHANGED <<convVars, resVars, detVars, returned, twin>>
    /\ pc = "pass1"
    /\ UNCHANGED <<data, fileSize, chunks, loopIters, current, meshes,
                   totalVertices, totalTriangles, meshCounter, outcome, lastFace>>
    /\ IF ci > Len(chunks)
       THEN /\ pc' = "pass2"
            /\ ci' = 1
            /\ UNCHANGED <<offset, modelInfo, debugInfo>>
       ELSE LET chunk == chunks[ci]
            IN  /\ pc' = "pass1"
                /\ ci' = ci + 1
                /\ IF chunk.name = HSEM
                   THEN /\ modelInfo' = parseHSEMChunk(data, chunk) @@ modelInfo
                        /\ offset' = InfoCursor(data, chunk, 16, 4, offset)
                        /\ debugInfo' =
                             IF chunk.size < 16 THEN debugInfo
                             ELSE IF parseHSEMChunk(data, chunk) = EmptyInfo
                             THEN Log("Error parsing HSEM chunk")
                             ELSE Log("Model type")
                   ELSE IF chunk.name = D3DR
                   THEN /\ modelInfo' = parseD3DRChunk(data, chunk) @@ modelInfo
                        /\ offset' = InfoCursor(data, chunk, 8, 8, offset)
                        /\ debugInfo' =
                             IF chunk.size < 8 THEN debugInfo
                             ELSE IF parseD3DRChunk(data, chunk) = EmptyInfo
                             THEN Log("Error parsing D3DR chunk")
                             ELSE Log("D3DR")
                   ELSE UNCHANGED <<offset, modelInfo, debugInfo>>

\* lines 309-317: the Float32Array filled through
\* vertexView = new DataView(vertexData.buffer); vertexData.buffer is the whole
\* ArrayBuffer this.data, so byte offsets count from the start of the file
ExtractVertices(buf, stride, vertexCount) ==
    [j \in 1..(3 * vertexCount) |->
        GetFloat32(buf, ((j - 1) \div 3) * stride + 4 * ((j - 1) % 3))]

\* mutant of TriangleIsValid: an index equal to the vertex count is accepted
TriangleIsValid_OffByOne(a, b, c, vertexCount) ==
    a <= vertexCount /\ b <= vertexCount /\ c <= vertexCount

\* lines 396, 438, 482: the triangle is kept
TriangleIsValid(a, b, c, vertexCount) ==
    a < vertexCount /\ b < vertexCount /\ c < vertexCount

\* the loops of lines 391-401, 433-445 and 477-485 from iteration i on, with the
\* cursor at off and the indices kept so far in acc.  ok is FALSE when a read
\* or the padding seek threw (caught at lines 418, 462, 502).
RECURSIVE ReadFaces(_, _, _, _, _, _, _)
ReadFaces(buf, cat, size, vertexCount, i, off, acc) ==
    IF ~(i * FaceRecordSize(cat) < size)
    THEN [ok |-> TRUE, offset |-> off, indices |-> acc, iterations |-> i]
    ELSE IF ~CanRead(off, 2, buf)
    THEN [ok |-> FALSE, offset |-> off, indices |-> acc, iterations |-> i + 1]
    ELSE IF ~CanRead(off + 2, 2, buf)
    THEN [ok |-> FALSE, offset |-> off + 2, indices |-> acc, iterations |-> i + 1]
    ELSE IF ~CanRead(off + 4, 2, buf)
    THEN [ok |-> FALSE, offset |-> off + 4, indices |-> acc, iterations |-> i + 1]
    ELSE LET a == GetUint16(buf, off)
             b == GetUint16(buf, off + 2)
             c == GetUint16(buf, off + 4)
             acc2 == IF TriangleIsValid(a, b, c, vertexCount)
                     THEN acc \o <<a, b, c>>
                     ELSE acc
             off2 == off + 6 + FacePadding(cat)
         IN  IF ~SeekOk(off2, buf)
             THEN [ok |-> FALSE, offset |-> off2, indices |-> acc2,
                   iterations |-> i + 1]
             ELSE ReadFaces(buf, cat, size, vertexCount, i + 1, off2, acc2)

\* mutant of NewMesh: the triangle count is the number of indices
NewMesh_CountsIndices(cat, counter, pending, indices) ==
    [name |-> <<cat, "mesh", counter>>,
     vertices |-> pending.vertices,
     indices |-> indices,
     vertexCount |-> pending.count,
     triangleCount |-> Len(indices),
     type |-> cat]

\* mutant of NewMesh: the name carries no running number
NewMesh_Unnumbered(cat, counter, pending, indices) ==
    [name |-> <<cat, "mesh", 0>>,
     vertices |-> pending.vertices,
     indices |-> indices,
     vertexCount |-> pending.count,
     triangleCount |-> Len(indices) \div 3,
     type |-> cat]

\* the MEFMesh built at lines 404-411, 448-455, 488-495
NewMesh(cat, counter, pending, indices) ==
    [name |-> <<cat, "mesh", counter>>,
     vertices |-> pending.vertices,
     indices |-> indices,
     vertexCount |-> pending.count,
     triangleCount |-> Len(indices) \div 3,
     type |-> cat]

\* lines 297-324, 327-354, 357-381: a vertex chunk of category cat
VertexChunk(cat, chunk) ==
    LET formatInfo == detectVertexFormat(chunk.size)
        payloadOffset == chunk.offset + 16
    IN  /\ UNCHANGED <<meshes, totalVertices, totalTriangles, meshCounter,
                       lastFace>>
        /\ IF formatInfo = NoFormat
           THEN /\ offset' = payloadOffset
                /\ debugInfo' = Log("possible formats")
                /\ UNCHANGED current
           ELSE IF CanRead(payloadOffset, chunk.size, data)
           THEN /\ offset' = payloadOffset + chunk.size
                /\ debugInfo' = debugInfo \o <<"possible formats", "Using", "Extracted">>
                /\ current' = [current EXCEPT ![cat] =
                       [vertices |-> ExtractVertices(data, formatInfo.stride,
                                                     formatInfo.vertexCount),
                        isSet |-> TRUE,
                        count |-> formatInfo.vertexCount]]
           ELSE /\ offset' = payloadOffset
                /\ debugInfo' = debugInfo \o <<"possible formats", "Using",
                                               "Error reading vertex chunk">>
                /\ current' = [current EXCEPT ![cat] = NoPending]

\* lines 384-423, 426-467, 470-508: a face chunk of category cat, with a
\* pending vertex buffer of that category
FaceChunk(cat, chunk) ==
    LET payloadOffset == chunk.offset + 16
        pending == current[cat]
        r == ReadFaces(data, cat, chunk.size, pending.count, 0, payloadOffset, <<>>)
        emit == r.ok /\ Len(r.indices) > 0
        mesh == NewMesh(cat, meshCounter, pending, r.indices)
    IN  /\ offset' = r.offset
        /\ debugInfo' = debugInfo \o <<"face chunk">>
               \o (IF ~r.ok THEN <<"Error reading face chunk">>
                   ELSE IF emit THEN <<"Created mesh">> ELSE <<>>)
        /\ meshes' = IF emit THEN Append(meshes, mesh) ELSE meshes
        /\ meshCounter' = IF emit THEN meshCounter + 1 ELSE meshCounter
        /\ totalVertices' = IF emit THEN totalVertices + mesh.vertexCount
                            ELSE totalVertices
        /\ totalTriangles' = IF emit THEN totalTriangles + mesh.triangleCount
                             ELSE totalTriangles
        /\ current' = [current EXCEPT ![cat] = NoPending]
        /\ lastFace' = [cat |-> cat, chunk |-> ci, pendingCount |-> pending.count,
                        ok |-> r.ok, indices |-> r.indices, emitted |-> emit,
                        firstRead |-> payloadOffset, endRead |-> r.offset,
                        iterations |-> r.iterations]

\* mutant of PayloadOutOfRange: only the header is required to fit
PayloadOutOfRange_HeaderOnly(chunk, buf) == chunk.offset + 16 > Len(buf)

\* lines 286-289: the payload of the chunk ends after the end of the buffer
PayloadOutOfRange(chunk, buf) == chunk.offset + 16 + chunk.size > Len(buf)

\* lines 285-509: one iteration of the second pass; lines 511-524 after it
SecondPassStep ==
    /\ UNCHANGED <<convVars, resVars, detVars, returned, twin>>
    /\ pc = "pass2"
    /\ UNCHANGED <<data, fileSize, chunks, loopIters, modelInfo>>
    /\ IF ci > Len(chunks)
       THEN /\ pc' = "done"
            /\ outcome' = IF Len(meshes) = 0 THEN "NoValidMeshes" ELSE "Model"
            /\ debugInfo' = IF Len(meshes) = 0 THEN debugInfo
                            ELSE Log("Final result")
            /\ UNCHANGED <<offset, ci, current, meshes, totalVertices,
                           totalTriangles, meshCounter, lastFace>>
       ELSE LET chunk == chunks[ci]
                payloadOffset == chunk.offset + 16
            IN  IF PayloadOutOfRange(chunk, data)
                THEN /\ debugInfo' = Log("Skipping chunk - payload out of range")
                     /\ ci' = ci + 1
                     /\ UNCHANGED <<pc, outcome, offset, current, meshes,
                                    totalVertices, totalTriangles, meshCounter,
                                    lastFace>>
                ELSE IF ~SeekOk(payloadOffset, data)
                THEN /\ offset' = payloadOffset
                     /\ pc' = "done"
                     /\ outcome' = "InvalidSeek"
                     /\ UNCHANGED <<ci, debugInfo, current, meshes, totalVertices,
                                    totalTriangles, meshCounter, lastFace>>
                ELSE /\ ci' = ci + 1
                     /\ UNCHANGED <<pc, outcome>>
                     /\ IF \E cat \in Categories :
                              chunk.name = VertexTag(cat) /\ chunk.size > 0
                        THEN VertexChunk(CHOOSE cat \in Categories :
                                             chunk.name = VertexTag(cat), chunk)
                        ELSE IF \E cat \in Categories :
                                   /\ chunk.name = FaceTag(cat)
                                   /\ chunk.size > 0
                                   /\ current[cat].isSet
                        THEN FaceChunk(CHOOSE cat \in Categories :
                                           chunk.name = FaceTag(cat), chunk)
                        ELSE /\ offset' = payloadOffset
                             /\ UNCHANGED <<debugInfo, current, meshes,
                                            totalVertices, totalTriangles,
                                            meshCounter, lastFace>>

(***************************************************************************)
(* OBJToMEFConverter.createChunkHeader (part_002:114-126): also the layout *)
(* of the chunk headers MEFParser.parse reads (mefParser.ts:221-224)       *)
(***************************************************************************)
createChunkHeader(name, size, param, next) ==
    name \o Int32Bytes(size) \o Int32Bytes(param) \o Int32Bytes(next)

(***************************************************************************)
(* The buffers MEFParser is run on                                         *)
(***************************************************************************)
\* bounds of the model
MaxChain == 3
MaxLinked == 3

SeqsUpTo(S, n) == UNION {[1..k -> S] : k \in 0..n}

RECURSIVE Flatten(_)
Flatten(ss) == IF ss = <<>> THEN <<>> ELSE Head(ss) \o Flatten(Tail(ss))

FloatTriple(x, y, z) == Float32Bytes(x) \o Float32Bytes(y) \o Float32Bytes(z)
Tri(a, b, c) == Uint16Bytes(a) \o Uint16Bytes(b) \o Uint16Bytes(c)

\* chunk bodies: tag, declared size, the bytes laid out after the header
ChunkKinds ==
    { [name |-> XTRV, size |-> 36,
       payload |-> FloatTriple(1, 0, 0) \o FloatTriple(0, 1, 0) \o FloatTriple(0, 0, 2)],
      [name |-> XTRV, size |-> 13, payload |-> Zeros(13)],
      [name |-> ECAF, size |-> 12, payload |-> Tri(0, 1, 2) \o Tri(0, 1, 999)],
      [name |-> ECAF, size |-> 7, payload |-> Tri(2, 1, 0) \o <<0>>],
      [name |-> ECAF, size |-> 7, payload |-> Tri(2, 1, 0) \o Tri(0, 0, 1)],
      [name |-> XTVC, size |-> 12, payload |-> FloatTriple(1, 2, 3)],
      [name |-> ECFC, size |-> 16,
       payload |-> Tri(0, 0, 0) \o <<0, 0>> \o Tri(0, 1, 0) \o <<0, 0>>],
      [name |-> ECFC, size |-> 6, payload |-> Tri(0, 0, 0)],
      [name |-> XTVS, size |-> 12, payload |-> FloatTriple(-1, 0, 4)],
      [name |-> CAFS, size |-> 6, payload |-> Tri(1, 0, 0)],
      [name |-> HSEM, size |-> 16, payload |-> Int32Bytes(3) \o Zeros(12)],
      [name |-> D3DR, size |-> 8, payload |-> Int32Bytes(2) \o Int32Bytes(3)] }

\* chunks laid out one after the other, each linked to the next one
\* (next = 16 + payload length, relative to its own header), the last with next = 0
RECURSIVE LinkedChunks(_)
LinkedChunks(kinds) ==
    IF kinds = <<>> THEN <<>>
    ELSE LET k == Head(kinds)
         IN  createChunkHeader(k.name, k.size, 0,
                 IF Len(kinds) = 1 THEN 0 ELSE 16 + Len(k.payload))
               \o k.payload \o LinkedChunks(Tail(kinds))

\* the container: signature, declared size, 12 reserved bytes, the chunks
MefFile(declaredSize, body) == ILFF \o Int32Bytes(declaredSize) \o Zeros(12) \o body

WellFormed(kinds) == MefFile(20 + Len(LinkedChunks(kinds)), LinkedChunks(kinds))

ChainInputs == {WellFormed(kinds) : kinds \in SeqsUpTo(ChunkKinds, MaxChain)}

\* header-only chunks with arbitrary next fields
NextValues == {0, 16, 1, 17, -16, -37, 1000}
LinkInputs ==
    {MefFile(20 + 16 * Len(nexts),
             Flatten([i \in 1..Len(nexts) |->
                         createChunkHeader(HSEM, 0, 0, nexts[i])]))
        : nexts \in SeqsUpTo(NextValues, MaxLinked)}

\* a vertex chunk and a face chunk with arbitrary declared sizes
SizeValues == {-1, 0, 6, 12, 36, 48, 64, 1073741824}
SizeInputs ==
    {MefFile(100,
             createChunkHeader(XTRV, s1, 0, 52)
               \o FloatTriple(1, 0, 0) \o FloatTriple(0, 1, 0) \o FloatTriple(0, 0, 2)
               \o createChunkHeader(ECAF, s2, 0, 0)
               \o Tri(0, 1, 2) \o Tri(0, 1, 999))
        : s1 \in SizeValues, s2 \in SizeValues}

\* well-formed files with an arbitrary declared size, cut at an arbitrary length
BaseFiles ==
    { <<CHOOSE k \in ChunkKinds : k.name = XTRV /\ k.size = 36,
        CHOOSE k \in ChunkKinds : k.name = ECAF /\ k.size = 12>>,
      <<CHOOSE k \in ChunkKinds : k.name = XTVC,
        CHOOSE k \in ChunkKinds : k.name = ECFC /\ k.size = 16>>,
      <<CHOOSE k \in ChunkKinds : k.name = HSEM,
        CHOOSE k \in ChunkKinds : k.name = D3DR>> }
DeclaredSizes == {-1, 0, 20, 21, 36, 37, 60, 1073741824}
Prefix(buf, n) == SubSeq(buf, 1, n)
TruncatedInputs ==
    UNION { {Prefix(MefFile(fs, LinkedChunks(base)), n)
                : fs \in DeclaredSizes, n \in 0..(20 + Len(LinkedChunks(base)))}
            : base \in BaseFiles }

\* files whose first 4 bytes are not the signature, cut at an arbitrary length
BadSignatures ==
    { <<88, 76, 70, 70>>, <<73, 76, 70, 88>>, <<105, 108, 102, 102>>,
      <<70, 70, 76, 73>>, <<0, 0, 0, 0>>, <<88, 88, 88, 88>> \o ILFF }
BadMagicInputs ==
    UNION { UNION { {Prefix(sig \o Int32Bytes(20 + Len(LinkedChunks(base)))
                              \o Zeros(12) \o LinkedChunks(base), n)
                        : n \in 0..(Len(sig) + 16 + Len(LinkedChunks(base)))}
                    : base \in BaseFiles }
            : sig \in BadSignatures }

\* two interleaved pairs: render vertices, collision vertices, collision
\* faces, render faces
InterleavedInputs ==
    { WellFormed(<<CHOOSE k \in ChunkKinds : k.name = XTRV /\ k.size = 36,
                   CHOOSE k \in ChunkKinds : k.name = XTVC,
                   CHOOSE k \in ChunkKinds : k.name = ECFC /\ k.size = 16,
                   CHOOSE k \in ChunkKinds : k.name = ECAF /\ k.size = 12>>) }

ParseInputs ==
    ChainInputs \cup LinkInputs \cup SizeInputs \cup TruncatedInputs
        \cup BadMagicInputs \cup InterleavedInputs

(***************************************************************************)
(* Idle values of the components a specification does not run              *)
(***************************************************************************)
EmptyOBJData == [vertices |-> <<>>, faces |-> <<>>, normals |-> <<>>, uvs |-> <<>>]

ConverterIdle ==
    /\ objContent = <<>>
    /\ objData = EmptyOBJData
    /\ mefBuffer = <<>>
    /\ convOutcome = "none"
    /\ convCalls = 0

ArchiveIdle ==
    /\ toAdd = <<>>
    /\ added = <<>>
    /\ files = <<>>
    /\ archiveBuffer = <<>>
    /\ resArchive = [files |-> <<>>, totalSize |-> 0]
    /\ resOffset = 0
    /\ resPc = "adding"
    /\ resWarning = "none"
    /\ resOutcome = "none"

DetectIdle ==
    /\ detectIn = 0
    /\ detectOut = NoFormat

\* no second buffer
NoTwin ==
    [data |-> <<>>, parsed |-> TRUE, outcome |-> "none", meshes |-> <<>>,
     totalVertices |-> 0, totalTriangles |-> 0]

\* new MEFParser(buf) (mefParser.ts:44-53), parse() not yet called
ParserStart(buf, at) ==
    /\ data = buf
    /\ offset = 0
    /\ debugInfo = <<>>
    /\ pc = at
    /\ fileSize = 0
    /\ chunks = <<>>
    /\ loopIters = 0
    /\ ci = 1
    /\ modelInfo = EmptyInfo
    /\ current = [cat \in Categories |-> NoPending]
    /\ meshes = <<>>
    /\ totalVertices = 0
    /\ totalTriangles = 0
    /\ meshCounter = 0
    /\ outcome = "none"
    /\ lastFace = NoFace
    /\ returned = <<>>

\* a parser on buf and no second buffer
ParserOn(buf, at) == ParserStart(buf, at) /\ twin = NoTwin

(***************************************************************************)
(* SpecParse: MEFParser.parse on every buffer of ParseInputs               *)
(***************************************************************************)
InitParse ==
    /\ \E buf \in ParseInputs : ParserOn(buf, "ready")
    /\ ConverterIdle
    /\ ArchiveIdle
    /\ DetectIdle

NextParse ==
    \/ ParseBegin
    \/ ReadChunk
    \/ FirstPassStep
    \/ SecondPassStep

SpecParse == InitParse /\ [][NextParse]_vars

(***************************************************************************)
(* OBJToMEFConverter (part_002:18-238).  An OBJ file is a list of lines,   *)
(* each a command and its numeric arguments (for f, the vertex index of    *)
(* each v/vt/vn group).                                                    *)
(***************************************************************************)
\* one iteration of the loop of parseOBJ (lines 29-86)
ParseOBJLine(od, line) ==
    CASE line.cmd = "v" /\ Len(line.args) >= 3 ->
            [od EXCEPT !.vertices = Append(@, SubSeq(line.args, 1, 3))]
      [] line.cmd = "vn" /\ Len(line.args) >= 3 ->
            [od EXCEPT !.normals = Append(@, SubSeq(line.args, 1, 3))]
      [] line.cmd = "vt" /\ Len(line.args) >= 2 ->
            [od EXCEPT !.uvs = Append(@, SubSeq(line.args, 1, 2))]
      [] line.cmd = "f" /\ Len(line.args) >= 3 ->
            LET face == [i \in 1..Len(line.args) |-> line.args[i] - 1]
            IN  IF Len(face) = 4
                THEN [od EXCEPT !.faces = @ \o << <<face[1], face[2], face[3]>>,
                                                  <<face[1], face[3], face[4]>> >>]
                ELSE IF Len(face) = 3
                THEN [od EXCEPT !.faces = Append(@, face)]
                ELSE od
      [] OTHER -> od

\* parseOBJ (lines 26-89): the lines are pushed onto this.objData
RECURSIVE parseOBJ(_, _)
parseOBJ(od, lines) ==
    IF lines = <<>> THEN od
    ELSE parseOBJ(ParseOBJLine(od, Head(lines)), Tail(lines))

\* lines 134-136
VertexStride(od) ==
    12 + (IF Len(od.normals) > 0 THEN 12 ELSE 0)
       + (IF Len(od.uvs) > 0 THEN 8 ELSE 0)

\* lines 149-172: what one iteration of the vertex loop writes
VertexRecord(od, i) ==
    FloatTriple(od.vertices[i][1], od.vertices[i][2], od.vertices[i][3])
      \o (IF Len(od.normals) > 0 /\ i <= Len(od.normals)
          THEN FloatTriple(od.normals[i][1], od.normals[i][2], od.normals[i][3])
          ELSE <<>>)
      \o (IF Len(od.uvs) > 0 /\ i <= Len(od.uvs)
          THEN Float32Bytes(od.uvs[i][1]) \o Float32Bytes(od.uvs[i][2])
          ELSE <<>>)

\* createXTRVChunk (lines 128-176): the records are written one after the
\* other into a zero-filled buffer of 16 + vertexCount * stride bytes
createXTRVChunk(od) ==
    LET chunkSize == Len(od.vertices) * VertexStride(od)
        written == Flatten([i \in 1..Len(od.vertices) |-> VertexRecord(od, i)])
    IN  createChunkHeader(XTRV, chunkSize, 0, 0)
          \o written \o Zeros(chunkSize - Len(written))

\* mutant of createECAFChunk: 8 bytes are reserved per face, as for collision faces
createECAFChunk_Padded(od) ==
    createChunkHeader(ECAF, Len(od.faces) * 8, 0, 0)
      \o Flatten([i \in 1..Len(od.faces) |->
                    Tri(od.faces[i][1], od.faces[i][2], od.faces[i][3]) \o <<0, 0>>])

\* createECAFChunk (lines 178-198)
createECAFChunk(od) ==
    createChunkHeader(ECAF, Len(od.faces) * 6, 0, 0)
      \o Flatten([i \in 1..Len(od.faces) |->
                    Tri(od.faces[i][1], od.faces[i][2], od.faces[i][3])])

\* mutant of EmptyMeshError: the face check is missing
EmptyMeshError_NoFaceCheck(od) ==
    IF Len(od.vertices) = 0 THEN "No vertices found" ELSE "ok"

\* lines 204-210: the error thrown, or ok
EmptyMeshError(od) ==
    IF Len(od.vertices) = 0 THEN "No vertices found"
    ELSE IF Len(od.faces) = 0 THEN "No faces found"
    ELSE "ok"

\* lines 212-236: the file built from the two chunks
BuildMEF(od) ==
    LET xtrvChunk == createXTRVChunk(od)
        ecafChunk == createECAFChunk(od)
        totalSize == 8 + Len(xtrvChunk) + Len(ecafChunk)
    IN  ILFF \o Int32Bytes(totalSize) \o xtrvChunk \o ecafChunk

\* convertToMEF (lines 200-237) on a converter not used before
convertToMEF ==
    /\ convOutcome = "none"
    /\ pc = "none"
    /\ LET od == parseOBJ(objData, objContent)
       IN  /\ objData' = od
           /\ convOutcome' = EmptyMeshError(od)
           /\ mefBuffer' = IF EmptyMeshError(od) = "ok" THEN BuildMEF(od) ELSE <<>>
    /\ convCalls' = convCalls + 1
    /\ UNCHANGED <<objContent, parserVars, resVars, detVars>>

\* new MEFParser(mefBuffer): the bytes returned are handed to a parser
ParseConverted ==
    /\ convOutcome = "ok"
    /\ pc = "none"
    /\ data' = mefBuffer
    /\ pc' = "ready"
    /\ UNCHANGED <<offset, debugInfo, fileSize, chunks, loopIters, ci, modelInfo,
                   current, meshes, totalVertices, totalTriangles, meshCounter,
                   outcome, lastFace, returned, twin>>
    /\ UNCHANGED <<convVars, resVars, detVars>>

(***************************************************************************)
(* SpecCodec: convertToMEF on an OBJ file, then MEFParser.parse on the     *)
(* bytes it returned                                                       *)
(***************************************************************************)
\* a bound of the model: the number of lines of an OBJ file
MaxLines == 4

OBJLines ==
    { [cmd |-> "v", args |-> <<0, 0, 0>>],
      [cmd |-> "v", args |-> <<1, -2, 3>>],
      [cmd |-> "vn", args |-> <<0, 0, 1>>],
      [cmd |-> "vt", args |-> <<0, 1>>],
      [cmd |-> "f", args |-> <<1, 1, 1>>],
      [cmd |-> "f", args |-> <<1, 2, 2>>],
      [cmd |-> "f", args |-> <<1, 2, 1, 2>>],
      [cmd |-> "f", args |-> <<1, 2>>] }

V(x, y, z) == [cmd |-> "v", args |-> <<x, y, z>>]
F(a, b, c) == [cmd |-> "f", args |-> <<a, b, c>>]

\* the unit cube: 8 corners, 2 triangles per side
CubeOBJ ==
    << V(0, 0, 0), V(1, 0, 0), V(1, 1, 0), V(0, 1, 0),
       V(0, 0, 1), V(1, 0, 1), V(1, 1, 1), V(0, 1, 1),
       F(1, 2, 3), F(1, 3, 4), F(5, 7, 6), F(5, 8, 7),
       F(1, 5, 6), F(1, 6, 2), F(2, 6, 7), F(2, 7, 3),
       F(3, 7, 8), F(3, 8, 4), F(4, 8, 5), F(4, 5, 1) >>

\* three vertices, one normal, one triangle
SparseNormalsOBJ ==
    << V(1, 0, 0), V(0, 1, 0), V(1, -2, 3),
       [cmd |-> "vn", args |-> <<0, 0, 1>>], F(1, 2, 3) >>

OBJInputs == SeqsUpTo(OBJLines, MaxLines) \cup {CubeOBJ, SparseNormalsOBJ}

InitCodec ==
    /\ objContent \in OBJInputs
    /\ objData = EmptyOBJData
    /\ mefBuffer = <<>>
    /\ convOutcome = "none"
    /\ convCalls = 0
    /\ ParserOn(<<>>, "none")
    /\ ArchiveIdle
    /\ DetectIdle

NextCodec ==
    \/ convertToMEF
    \/ ParseConverted
    \/ ParseBegin
    \/ ReadChunk
    \/ FirstPassStep
    \/ SecondPassStep

SpecCodec == InitCodec /\ [][NextCodec]_vars

(***************************************************************************)
(* SpecDetect: detectVertexFormat applied to a chunk size                  *)
(***************************************************************************)
\* a bound of the model: every size up to it is tried
MaxDetectSize == 200

DetectSizes ==
    (-40..MaxDetectSize)
      \cup {3200, 64000000, 63999968, 48000000, 47999976, 39999980,
            31999984, 24000000, 23999988}

DetectPending == [stride |-> -1, vertexCount |-> -1, format |-> "pending"]

InitDetect ==
    /\ detectIn \in DetectSizes
    /\ detectOut = DetectPending
    /\ ParserOn(<<>>, "none")
    /\ ConverterIdle
    /\ ArchiveIdle

Detect ==
    /\ detectOut = DetectPending
    /\ detectOut' = detectVertexFormat(detectIn)
    /\ UNCHANGED <<detectIn, parserVars, convVars, resVars>>

NextDetect == Detect

SpecDetect == InitDetect /\ [][NextDetect]_vars

(***************************************************************************)
(* RESArchiveBuilder (part_002:273-376).  A name is a sequence of code     *)
(* points below 2048.                                                      *)
(***************************************************************************)
LOCAL_PREFIX == <<76, 79, 67, 65, 76, 58>>
NAME_SIG == <<78, 65, 77, 69>>
BODY_SIG == <<66, 79, 68, 89>>
IRES_SIG == <<73, 82, 69, 83>>

\* filename.startsWith(prefix)
StartsWith(str, prefix) ==
    Len(str) >= Len(prefix) /\ SubSeq(str, 1, Len(prefix)) = prefix

\* TextEncoder.encode: UTF-8, one byte below 128 and two bytes below 2048
TextEncode(str) ==
    Flatten([i \in 1..Len(str) |->
                IF str[i] < 128 THEN <<str[i]>>
                ELSE <<192 + (str[i] \div 64), 128 + (str[i] % 64)>>])

\* TextDecoder.decode: UTF-8 sequences of one and two bytes; any other byte
\* decodes to U+FFFD
RECURSIVE TextDecode(_)
TextDecode(bytes) ==
    IF bytes = <<>> THEN <<>>
    ELSE IF bytes[1] < 128 THEN <<bytes[1]>> \o TextDecode(Tail(bytes))
    ELSE IF /\ bytes[1] >= 194 /\ bytes[1] <= 223 /\ Len(bytes) >= 2
            /\ bytes[2] >= 128 /\ bytes[2] <= 191
    THEN <<(bytes[1] - 192) * 64 + (bytes[2] - 128)>>
           \o TextDecode(Tail(Tail(bytes)))
    ELSE <<65533>> \o TextDecode(Tail(bytes))

\* .replace(/\0/g, '')
StripNul(str) ==
    LET NotNul(ch) == ch # 0
    IN  SelectSeq(str, NotNul)

\* mutant of Ceil4: no rounding
Ceil4_None(n) == n

\* Math.ceil(n / 4) * 4
Ceil4(n) == ((n + 3) \div 4) * 4

\* view.setUint32(offset, value, true), for values below 2^31
Uint32Bytes(v) ==
    <<v % 256, (v \div 256) % 256, (v \div 65536) % 256, v \div 16777216>>

\* the RESFileEntry pushed by addFile (lines 281-286)
NewFileEntry(filename, bytes) ==
    [name |-> IF StartsWith(filename, LOCAL_PREFIX) THEN filename
              ELSE LOCAL_PREFIX \o filename,
     data |-> bytes]

\* lines 299-343: the entry buffer of one file
EntryBuffer(file) ==
    LET filenameBytes == TextEncode(file.name \o <<0>>)
        paddedFilenameLength == Ceil4(Len(filenameBytes))
        paddedDataLength == Ceil4(Len(file.data))
    IN  NAME_SIG \o Uint32Bytes(Len(filenameBytes)) \o Uint32Bytes(4)
          \o Uint32Bytes(16 + paddedFilenameLength)
          \o filenameBytes \o Zeros(paddedFilenameLength - Len(filenameBytes))
          \o BODY_SIG \o Uint32Bytes(Len(file.data)) \o Uint32Bytes(4)
          \o Uint32Bytes(16 + paddedDataLength)
          \o file.data \o Zeros(paddedDataLength - Len(file.data))

\* build (lines 291-375)
BuildArchive(fs) ==
    LET fileEntries == [i \in 1..Len(fs) |-> EntryBuffer(fs[i])]
        totalArchiveSize == 16 + 4 + Len(Flatten(fileEntries))
    IN  ILFF \o Uint32Bytes(totalArchiveSize) \o Uint32Bytes(4) \o Uint32Bytes(0)
          \o IRES_SIG \o Flatten(fileEntries)

addFile ==
    /\ resPc = "adding"
    /\ toAdd # <<>>
    /\ files' = Append(files, NewFileEntry(Head(toAdd).name, Head(toAdd).data))
    /\ added' = Append(added, Head(toAdd))
    /\ toAdd' = Tail(toAdd)
    /\ UNCHANGED <<archiveBuffer, resArchive, resOffset, resPc, resWarning,
                   resOutcome>>
    /\ UNCHANGED <<parserVars, convVars, detVars>>

build ==
    /\ resPc = "adding"
    /\ toAdd = <<>>
    /\ archiveBuffer' = BuildArchive(files)
    /\ resPc' = "built"
    /\ UNCHANGED <<toAdd, added, files, resArchive, resOffset, resWarning,
                   resOutcome>>
    /\ UNCHANGED <<parserVars, convVars, detVars>>

(***************************************************************************)
(* RESArchiveReader.parse (part_002:384-477)                               *)
(***************************************************************************)
\* view.getUint32(o, true) does not throw a RangeError
CanGet(buf, o) == o >= 0 /\ o + 4 <= Len(buf)

\* view.getUint32(o, true)
GetUint32(buf, o) ==
    buf[o + 1] + 256 * buf[o + 2] + 65536 * buf[o + 3] + 16777216 * buf[o + 4]

\* buffer.slice(from, to): both ends are clamped to the buffer
SliceClamped(buf, from, to) ==
    LET lo == IF from > Len(buf) THEN Len(buf) ELSE IF from < 0 THEN 0 ELSE from
        hi == IF to > Len(buf) THEN Len(buf) ELSE IF to < 0 THEN 0 ELSE to
    IN  IF hi <= lo THEN <<>> ELSE SubSeq(buf, lo + 1, hi)

\* lines 389-412: the two signature checks; the reads are outside any try
ReaderBegin ==
    /\ resPc = "built"
    /\ UNCHANGED <<toAdd, added, files, archiveBuffer, resWarning>>
    /\ UNCHANGED <<parserVars, convVars, detVars>>
    /\ IF ~CanGet(archiveBuffer, 0)
       THEN /\ resOutcome' = "RangeError" /\ resPc' = "done"
            /\ UNCHANGED <<resArchive, resOffset>>
       ELSE IF Slice(archiveBuffer, 0, 4) # ILFF
       THEN /\ resOutcome' = "Missing ILFF header" /\ resPc' = "done"
            /\ UNCHANGED <<resArchive, resOffset>>
       ELSE IF ~CanGet(archiveBuffer, 16)
       THEN /\ resOutcome' = "RangeError" /\ resPc' = "done"
            /\ resOffset' = 4 * (CHOOSE k \in 1..4 :
                                    /\ CanGet(archiveBuffer, 4 * (k - 1))
                                    /\ ~CanGet(archiveBuffer, 4 * k))
            /\ UNCHANGED resArchive
       ELSE IF Slice(archiveBuffer, 16, 4) # IRES_SIG
       THEN /\ resOutcome' = "Missing IRES header" /\ resPc' = "done"
            /\ resOffset' = 16
            /\ UNCHANGED resArchive
       ELSE /\ resPc' = "reading"
            /\ resOffset' = 20
            /\ resArchive' = [files |-> <<>>,
                              totalSize |-> GetUint32(archiveBuffer, 4)]
            /\ UNCHANGED resOutcome

\* mutant of NextEntryOffset: the 16 bytes of the NAME header are not counted
NextEntryOffset_NoHeader(entryStart, filenameLength, totalFileSize) ==
    entryStart + Ceil4(filenameLength) + totalFileSize

\* line 465: the offset of the next entry
NextEntryOffset(entryStart, filenameLength, totalFileSize) ==
    entryStart + 16 + Ceil4(filenameLength) + totalFileSize

\* lines 415-471: one evaluation of the while condition and, if it holds, one
\* execution of the loop body; a throw inside the try ends the loop
ReaderEntry ==
    /\ resPc = "reading"
    /\ UNCHANGED <<toAdd, added, files, archiveBuffer>>
    /\ UNCHANGED <<parserVars, convVars, detVars>>
    /\ LET buf == archiveBuffer
           entryStart == resOffset
           filenameLength == GetUint32(buf, entryStart + 4)
           bodyOffset == GetUint32(buf, entryStart + 12)
           filename == StripNul(TextDecode(
                           SliceClamped(buf, entryStart + 16,
                                        entryStart + 16 + filenameLength)))
           bodyAt == entryStart + bodyOffset
           fileLength == GetUint32(buf, bodyAt + 4)
           totalFileSize == GetUint32(buf, bodyAt + 12)
           fileData == SliceClamped(buf, bodyAt + 16, bodyAt + 16 + fileLength)
           \* the first of three reads from base on that throws
           Thrown(base) == base + 4 * (CHOOSE k \in 1..3 :
                                         /\ CanGet(buf, base + 4 * (k - 1))
                                         /\ ~CanGet(buf, base + 4 * k))
           \* the loop is left with offset at off, after console.warn(warn)
           \* if an error was caught, and parse returns the archive
           Return(off, warn) == /\ resPc' = "done"
                                /\ resOutcome' = "ok"
                                /\ resOffset' = off
                                /\ resWarning' = warn
                                /\ UNCHANGED resArchive
       IN  IF ~(resOffset < Len(buf)) THEN Return(resOffset, "none")
           ELSE IF ~CanGet(buf, entryStart) THEN Return(entryStart, "RangeError")
           ELSE IF Slice(buf, entryStart, 4) # NAME_SIG
           THEN Return(entryStart, "none")
           ELSE IF ~CanGet(buf, entryStart + 12)
           THEN Return(Thrown(entryStart), "RangeError")
           ELSE IF ~CanGet(buf, bodyAt) THEN Return(bodyAt, "RangeError")
           ELSE IF Slice(buf, bodyAt, 4) # BODY_SIG
           THEN Return(bodyAt, "Invalid file entry: Missing BODY header")
           ELSE IF ~CanGet(buf, bodyAt + 12)
           THEN Return(Thrown(bodyAt), "RangeError")
           ELSE /\ resPc' = "reading"
                /\ resArchive' = [resArchive EXCEPT !.files =
                       Append(@, [name |-> filename, data |-> fileData])]
                /\ resOffset' = NextEntryOffset(entryStart, filenameLength,
                                                totalFileSize)
                /\ UNCHANGED <<resOutcome, resWarning>>

(***************************************************************************)
(* SpecArchive: addFile for each entry, build, RESArchiveReader.parse      *)
(***************************************************************************)
\* a bound of the model: the number of entries of an archive
MaxEntries == 2

ArchiveNames ==
    { <<>>, <<97>>, <<97, 98>>, LOCAL_PREFIX \o <<120>>,
      <<108, 111, 99, 97, 108, 58, 120>>, <<233, 46, 109>>, <<97, 0, 98>> }
ArchivePayloads == { <<>>, <<7>>, <<1, 2, 3, 4>>, <<0, 255, 0, 9, 8>> }
ArchiveEntries == [name : ArchiveNames, data : ArchivePayloads]

InitArchive ==
    /\ toAdd \in SeqsUpTo(ArchiveEntries, MaxEntries)
    /\ added = <<>>
    /\ files = <<>>
    /\ archiveBuffer = <<>>
    /\ resArchive = [files |-> <<>>, totalSize |-> 0]
    /\ resOffset = 0
    /\ resPc = "adding"
    /\ resWarning = "none"
    /\ resOutcome = "none"
    /\ ParserOn(<<>>, "none")
    /\ ConverterIdle
    /\ DetectIdle

NextArchive ==
    \/ addFile
    \/ build
    \/ ReaderBegin
    \/ ReaderEntry

SpecArchive == InitArchive /\ [][NextArchive]_vars

(***************************************************************************)
(* Claims about MEFParser.parse, checked under SpecParse                   *)
(***************************************************************************)
HasSignature(buf) == Len(buf) >= 4 /\ Slice(buf, 0, 4) = ILFF

\* C3 (as claimed): the chunk-reading loop runs at most bufferLength / 16
\* iterations on every buffer.
C3_ChunkWalkBound == loopIters * 16 <= Len(data)

\* C4: in every Model returned by parse, every index of every mesh is
\* strictly less than that mesh's vertexCount.
C4_IndexValidity ==
    (pc = "done" /\ outcome = "Model") =>
        \A k \in 1..Len(meshes) :
            \A i \in 1..Len(meshes[k].indices) :
                meshes[k].indices[i] < meshes[k].vertexCount

\* C4 witness: a Model was returned whose last face chunk had a triangle dropped
C4_Witness ==
    /\ pc = "done"
    /\ outcome = "Model"
    /\ lastFace.emitted
    /\ Len(lastFace.indices) < 3 * lastFace.iterations

\* C7: for every buffer of at least 8 bytes that starts with ILFF, a parse that
\* ends either returns a Model with at least one mesh or fails with the
\* 'No valid meshes' error; no read-beyond-buffer or invalid-seek error escapes.
C7_ClosedErrorSet ==
    (pc = "done" /\ Len(data) >= 8 /\ HasSignature(data)) =>
        \/ outcome = "NoValidMeshes" /\ Len(meshes) = 0
        \/ outcome = "Model" /\ Len(meshes) >= 1

\* C7 witness: the declared size exceeds the buffer, a chunk was decoded whose
\* payload runs past the end of the buffer, and parse ended
C7_Witness ==
    /\ pc = "done"
    /\ HasSignature(data)
    /\ fileSize > Len(data)
    /\ \E k \in 1..Len(chunks) :
           chunks[k].offset + 16 + chunks[k].size > Len(data)
    /\ outcome \in {"NoValidMeshes", "Model"}

\* the triangles of a face chunk: floor(size / recordSize) records from the
\* start of its payload
ChunkTriangles(buf, payloadOffset, size, recordSize) ==
    [k \in 1..(size \div recordSize) |->
        << GetUint16(buf, payloadOffset + (k - 1) * recordSize),
           GetUint16(buf, payloadOffset + (k - 1) * recordSize + 2),
           GetUint16(buf, payloadOffset + (k - 1) * recordSize + 4) >>]

\* the indices of the triangles whose three indices are all below n, in order
RECURSIVE ValidIndices(_, _)
ValidIndices(tris, n) ==
    IF tris = <<>> THEN <<>>
    ELSE (IF Head(tris)[1] < n /\ Head(tris)[2] < n /\ Head(tris)[3] < n
          THEN Head(tris) ELSE <<>>) \o ValidIndices(Tail(tris), n)

ExpectedIndices ==
    ValidIndices(ChunkTriangles(data, chunks[lastFace.chunk].offset + 16,
                                chunks[lastFace.chunk].size,
                                FaceRecordSize(lastFace.cat)),
                 lastFace.pendingCount)

\* C8 (as claimed): after a face chunk is processed against a pending buffer of
\* N vertices, a mesh was emitted iff some triangle of the chunk has all its
\* indices below N, and the emitted index list is exactly those triangles.
C8_TriangleFiltering ==
    lastFace.cat # "none" =>
        /\ lastFace.emitted <=> ExpectedIndices # <<>>
        /\ lastFace.emitted => meshes[Len(meshes)].indices = ExpectedIndices

\* C9: parse fails with 'too small' on every buffer shorter than 8 bytes and
\* with 'missing ILFF' on every buffer of at least 8 bytes whose first 4 bytes
\* are not ILFF; no chunk is decoded and no Model is returned.
C9_StructuralRejection ==
    pc \notin {"none", "ready"} =>
        /\ Len(data) < 8 =>
               /\ pc = "done" /\ outcome = "TooSmall"
               /\ chunks = <<>> /\ loopIters = 0 /\ meshes = <<>>
        /\ (Len(data) >= 8 /\ ~HasSignature(data)) =>
               /\ pc = "done" /\ outcome = "BadMagic"
               /\ chunks = <<>> /\ loopIters = 0 /\ meshes = <<>>

\* C9 witness: a buffer of 4..7 bytes that does start with ILFF is rejected as
\* too small (the size check comes first)
C9_Witness ==
    /\ pc = "done"
    /\ Len(data) < 8
    /\ HasSignature(data)
    /\ outcome = "TooSmall"

(***************************************************************************)
(* Claims about OBJToMEFConverter, checked under SpecCodec                 *)
(***************************************************************************)
\* every face index names a vertex
FacesInRange(od) ==
    \A i \in 1..Len(od.faces) : \A k \in 1..3 :
        od.faces[i][k] >= 0 /\ od.faces[i][k] < Len(od.vertices)

\* the positions of a mesh description as float32 values, flattened
Positions(od) ==
    Flatten([i \in 1..Len(od.vertices) |->
                [k \in 1..3 |-> Float32Bits(od.vertices[i][k])]])

\* C1 (as claimed): for every mesh description with at least 1 vertex and 1
\* triangle and all face indices below the vertex count, parsing the bytes
\* convertToMEF returned yields a Model with exactly one mesh whose positions
\* and indices are the originals, with vertexCount and triangleCount the
\* numbers of input vertices and faces.
C1_RoundTrip ==
    (convOutcome = "ok" /\ pc = "done" /\ FacesInRange(objData)) =>
        /\ outcome = "Model"
        /\ Len(meshes) = 1
        /\ meshes[1].vertices = Positions(objData)
        /\ meshes[1].indices = Flatten(objData.faces)
        /\ meshes[1].vertexCount = Len(objData.vertices)
        /\ meshes[1].triangleCount = Len(objData.faces)

IsCubeLike(od) ==
    /\ Len(od.vertices) = 8
    /\ Len(od.faces) = 12
    /\ Len(od.normals) = 0
    /\ Len(od.uvs) = 0

\* C6 (as claimed): for 8 vertices, 12 triangles and no normals or UVs,
\* convertToMEF returns exactly 380 bytes.
C6_CubeSize380 ==
    (convOutcome = "ok" /\ IsCubeLike(objData)) => Len(mefBuffer) = 380

\* C6 (amended): for 8 vertices, 12 triangles and no normals or UVs,
\* convertToMEF returns exactly 208 bytes (8 + 16 + 8*12 + 16 + 12*6).
C6_CubeSize208 ==
    (convOutcome = "ok" /\ IsCubeLike(objData)) => Len(mefBuffer) = 208

\* C6 witness: the cube was converted
C6_Witness == convOutcome = "ok" /\ objContent = CubeOBJ /\ IsCubeLike(objData)

\* the input has a vertex line / a face line with 3 or 4 corners
HasVertexLine(lines) ==
    \E i \in 1..Len(lines) : lines[i].cmd = "v" /\ Len(lines[i].args) >= 3
HasTriangleLine(lines) ==
    \E i \in 1..Len(lines) : lines[i].cmd = "f" /\ Len(lines[i].args) \in {3, 4}

\* C10: convertToMEF fails, returning no bytes, whenever the parsed input has
\* zero vertices or zero triangular faces, and succeeds otherwise.
C10_EmptyMeshRejection ==
    convOutcome # "none" =>
        /\ convOutcome # "ok" <=>
               (~HasVertexLine(objContent) \/ ~HasTriangleLine(objContent))
        /\ convOutcome # "ok" => mefBuffer = <<>>
        /\ convOutcome = "ok" => Len(mefBuffer) > 0

\* C10 witness: an input with a vertex and a face line of two corners only is
\* rejected for having no faces
C10_Witness ==
    /\ convOutcome = "No faces found"
    /\ HasVertexLine(objContent)
    /\ \E i \in 1..Len(objContent) : objContent[i].cmd = "f"

(***************************************************************************)
(* Claims about detectVertexFormat, checked under SpecDetect               *)
(***************************************************************************)
StridePriority == <<32, 24, 20, 16, 12>>

\* stride s divides size and the quotient lies strictly between 0 and 2,000,000
IsCandidate(size, s) ==
    /\ size % s = 0
    /\ 0 < size \div s
    /\ size \div s < 2000000

\* C5: the result is the first stride of 32, 24, 20, 16, 12 that divides the
\* chunk size with a quotient strictly between 0 and 2,000,000, together with
\* that quotient as the vertex count; it is null iff no stride qualifies; size
\* 3200 gives stride 32 with 100 vertices
C5_StrideSelection ==
    detectOut # DetectPending =>
        /\ IF \E i \in 1..5 : IsCandidate(detectIn, StridePriority[i])
           THEN LET first == CHOOSE i \in 1..5 :
                               /\ IsCandidate(detectIn, StridePriority[i])
                               /\ \A j \in 1..(i - 1) :
                                     ~IsCandidate(detectIn, StridePriority[j])
                IN  /\ detectOut # NoFormat
                    /\ detectOut.stride = StridePriority[first]
                    /\ detectOut.vertexCount = detectIn \div StridePriority[first]
           ELSE detectOut = NoFormat
        /\ detectIn = 3200 => detectOut.stride = 32 /\ detectOut.vertexCount = 100

\* size 3200 has been detected: strides 32, 20 and 16 all divide it
C5_Witness ==
    /\ detectIn = 3200
    /\ detectOut # DetectPending
    /\ detectOut.stride = 32
    /\ IsCandidate(3200, 20)
    /\ IsCandidate(3200, 16)

(***************************************************************************)
(* Claims about the archive builder and reader, checked under SpecArchive  *)
(***************************************************************************)
\* the name with the LOCAL: prefix added exactly when it was absent
Normalized(name) ==
    IF StartsWith(name, LOCAL_PREFIX) THEN name ELSE LOCAL_PREFIX \o name

ParseReturned == resPc = "done" /\ resOutcome = "ok"

\* C2: the entries read back are the entries added, in order, each
\* under its normalised name and with the same bytes
C2_ArchiveRoundTrip ==
    ParseReturned =>
        /\ Len(resArchive.files) = Len(added)
        /\ \A i \in 1..Len(added) :
              /\ resArchive.files[i].name = Normalized(added[i].name)
              /\ resArchive.files[i].data = added[i].data

\* what the reader does return: the entries added, in order, with the same
\* bytes, each under its normalised name without the NUL characters in it
ArchiveRoundTripUpToNul ==
    ParseReturned =>
        /\ Len(resArchive.files) = Len(added)
        /\ \A i \in 1..Len(added) :
              /\ resArchive.files[i].name = StripNul(Normalized(added[i].name))
              /\ resArchive.files[i].data = added[i].data
              /\ (\A k \in 1..Len(added[i].name) : added[i].name[k] # 0)
                    => resArchive.files[i].name = Normalized(added[i].name)

(***************************************************************************)
(* SpecReader: RESArchiveReader.parse on a buffer that is an archive of    *)
(* the builder, or such an archive with one 32-bit word replaced, or a     *)
(* prefix of one                                                           *)
(***************************************************************************)
SampleFiles ==
    { NewFileEntry(<<120>>, <<7>>), NewFileEntry(<<>>, <<1, 2, 3, 4>>) }

BuiltArchives == { BuildArchive(fs) : fs \in SeqsUpTo(SampleFiles, MaxEntries) }

\* values written over a word: small lengths and offsets, and a wrong tag
WordValues == { Uint32Bytes(0), Uint32Bytes(16), Uint32Bytes(20),
                Uint32Bytes(1000), <<88, 88, 88, 88>> }

\* buf with the four bytes at offset o replaced by w
WithWord(buf, o, w) ==
    [i \in 1..Len(buf) |-> IF i > o /\ i <= o + 4 THEN w[i - o] ELSE buf[i]]

ReaderInputs ==
    BuiltArchives
      \cup UNION { { WithWord(b, 4 * k, w) :
                        k \in 0..((Len(b) \div 4) - 1), w \in WordValues } :
                   b \in BuiltArchives }
      \cup UNION { { Prefix(b, n) : n \in 0..Len(b) } : b \in BuiltArchives }

InitReader ==
    /\ archiveBuffer \in ReaderInputs
    /\ toAdd = <<>>
    /\ added = <<>>
    /\ files = <<>>
    /\ resArchive = [files |-> <<>>, totalSize |-> 0]
    /\ resOffset = 0
    /\ resPc = "built"
    /\ resWarning = "none"
    /\ resOutcome = "none"
    /\ ParserOn(<<>>, "none")
    /\ ConverterIdle
    /\ DetectIdle

NextReader ==
    \/ ReaderBegin
    \/ ReaderEntry

SpecReader == InitReader /\ [][NextReader]_vars

(***************************************************************************)
(* Claims about RESArchiveReader.parse, checked under SpecReader           *)
(***************************************************************************)
\* the reader found the NAME record at resOffset's entry but no BODY
\* signature where its body offset points
MissingBody == resWarning = "Invalid file entry: Missing BODY header"

\* C11: when the body offset of a NAME record does not land on a BODY
\* signature, parse fails with an error and does not return an archive
C11_CorruptArchive ==
    MissingBody => ~(resPc = "done" /\ resOutcome = "ok")

(***************************************************************************)
(* SpecReuse: convertToMEF called several times on one OBJToMEFConverter   *)
(***************************************************************************)
\* a bound of the model: the number of calls on one instance
MaxCalls == 2

ReuseInputs == SeqsUpTo(OBJLines, 2) \cup {CubeOBJ}

\* convertToMEF (lines 200-237) on a converter used before: parseOBJ pushes
\* onto the objData the earlier calls left
convertToMEFAgain ==
    /\ convCalls >= 1
    /\ convCalls < MaxCalls
    /\ pc = "none"
    /\ \E content \in ReuseInputs :
          LET od == parseOBJ(objData, content)
          IN  /\ objContent' = content
              /\ objData' = od
              /\ convOutcome' = EmptyMeshError(od)
              /\ mefBuffer' = IF EmptyMeshError(od) = "ok" THEN BuildMEF(od)
                              ELSE <<>>
    /\ convCalls' = convCalls + 1
    /\ UNCHANGED <<parserVars, resVars, detVars>>

InitReuse ==
    /\ objContent \in ReuseInputs
    /\ objData = EmptyOBJData
    /\ mefBuffer = <<>>
    /\ convOutcome = "none"
    /\ convCalls = 0
    /\ ParserOn(<<>>, "none")
    /\ ArchiveIdle
    /\ DetectIdle

NextReuse ==
    \/ convertToMEF
    \/ convertToMEFAgain

SpecReuse == InitReuse /\ [][NextReuse]_vars

(***************************************************************************)
(* Claims about repeated calls, checked under SpecReuse                    *)
(***************************************************************************)
\* what a converter not used before does with the content
FreshData(content) == parseOBJ(EmptyOBJData, content)

\* C12: a call after the first returns, or throws, exactly what a fresh
\* converter does on the same content
C12_EncodeIndependence ==
    convCalls >= 2 =>
        /\ convOutcome = EmptyMeshError(FreshData(objContent))
        /\ mefBuffer = IF EmptyMeshError(FreshData(objContent)) = "ok"
                       THEN BuildMEF(FreshData(objContent))
                       ELSE <<>>

(***************************************************************************)
(* SpecReparse: parse() called again on the same MEFParser                 *)
(***************************************************************************)
\* a bound of the model: the number of parse() calls on one instance
MaxParses == 2

\* the MEFModel of lines 517-524
ReturnedModel ==
    [meshes |-> meshes, totalVertices |-> totalVertices,
     totalTriangles |-> totalTriangles, fileSize |-> Len(data),
     chunks |-> chunks, modelInfo |-> modelInfo]

\* parse() is called again after it returned a Model: its locals are new,
\* this.offset is what the earlier call left (nothing in parse resets it)
ParseAgain ==
    /\ pc = "done"
    /\ outcome = "Model"
    /\ Len(returned) + 1 < MaxParses
    /\ returned' = Append(returned, ReturnedModel)
    /\ pc' = "ready"
    /\ outcome' = "none"
    /\ fileSize' = 0
    /\ chunks' = <<>>
    /\ loopIters' = 0
    /\ ci' = 1
    /\ modelInfo' = EmptyInfo
    /\ current' = [cat \in Categories |-> NoPending]
    /\ meshes' = <<>>
    /\ totalVertices' = 0
    /\ totalTriangles' = 0
    /\ meshCounter' = 0
    /\ lastFace' = NoFace
    /\ UNCHANGED <<data, offset, debugInfo, twin>>
    /\ UNCHANGED <<convVars, resVars, detVars>>

NextReparse ==
    \/ ParseBegin
    \/ ReadChunk
    \/ FirstPassStep
    \/ SecondPassStep
    \/ ParseAgain

SpecReparse == InitParse /\ [][NextReparse]_vars

(***************************************************************************)
(* Claims about a MEFParser used again, checked under SpecReparse          *)
(***************************************************************************)
\* C13: a parse() call made after a call that returned a Model returns a
\* Model too, equal to the earlier one
C13_Reparse ==
    (returned # <<>> /\ pc = "done") =>
        /\ outcome = "Model"
        /\ ReturnedModel = returned[Len(returned)]

(***************************************************************************)
(* Further claims about MEFParser.parse, checked under SpecParse           *)
(***************************************************************************)
\* C14: after every cursor call, failed ones included, the position lies
\* between 0 and the length of the buffer
C14_CursorInRange == 0 <= offset /\ offset <= Len(data)

\* the chunk's header lies in the buffer and its payload ends after it
Overhangs(chunk) ==
    /\ chunk.offset >= 0
    /\ chunk.offset + 16 <= Len(data)
    /\ chunk.offset + 16 + chunk.size > Len(data)

\* C15: a chunk whose payload ends after the end of the buffer is appended
\* to the chunk table when its header is read, and the step of the geometry
\* pass that meets it changes no pending vertex buffer, no mesh, neither
\* the mesh counter nor the totals
C15_SkipWithoutEffect ==
    [][ /\ (/\ pc = "chunks"
            /\ offset < fileSize
            /\ offset + 16 <= Len(data)
            /\ Overhangs(ChunkAt(data, offset)))
           => chunks' = Append(chunks, ChunkAt(data, offset))
        /\ (/\ pc = "pass2"
            /\ ci <= Len(chunks)
            /\ Overhangs(chunks[ci]))
           => /\ ci' = ci + 1
              /\ chunks' = chunks
              /\ current' = current
              /\ meshes' = meshes
              /\ meshCounter' = meshCounter
              /\ totalVertices' = totalVertices
              /\ totalTriangles' = totalTriangles ]_vars

\* the geometry pass has just gone past a chunk whose payload ends after the
\* buffer, while a vertex buffer decoded before it is pending
C15_Witness ==
    /\ pc = "pass2"
    /\ ci > 1
    /\ Overhangs(chunks[ci - 1])
    /\ \E cat \in Categories : current[cat].isSet

\* chunks[ci] is a vertex chunk of category cat that the geometry pass decodes
DecodesVertices(cat) ==
    /\ pc = "pass2"
    /\ ci <= Len(chunks)
    /\ chunks[ci].name = VertexTag(cat)
    /\ chunks[ci].size > 0
    /\ chunks[ci].offset >= 0
    /\ chunks[ci].offset + 16 + chunks[ci].size <= Len(data)
    /\ detectVertexFormat(chunks[ci].size) # NoFormat

\* C16: the x, y, z of vertex i of a vertex chunk at header offset o with
\* detected stride s are the floats at the absolute offsets o + 16 + i * s,
\* o + 16 + i * s + 4 and o + 16 + i * s + 8 of the buffer
C16_VertexOffsets ==
    [][ \A cat \in Categories :
          DecodesVertices(cat) =>
            LET o == chunks[ci].offset
                s == detectVertexFormat(chunks[ci].size).stride
                n == detectVertexFormat(chunks[ci].size).vertexCount
            IN  /\ current'[cat].count = n
                /\ current'[cat].vertices =
                     [j \in 1..(3 * n) |->
                        GetFloat32(data, o + 16 + ((j - 1) \div 3) * s
                                           + 4 * ((j - 1) % 3))] ]_vars

\* C17: of two consecutive chunks of the table, the later one's offset is
\* the earlier one's next, taken from the start of the buffer; a chunk with
\* next = 0 is the last of the table
C17_AbsoluteLinking ==
    /\ \A k \in 1..(Len(chunks) - 1) : chunks[k + 1].offset = chunks[k].next
    /\ \A k \in 1..Len(chunks) : chunks[k].next = 0 => k = Len(chunks)

\* C17 amended: of two consecutive chunks of the table, the later one's
\* offset is the earlier one's offset plus the earlier one's next; a chunk
\* with next = 0 is the last of the table
C17_RelativeLinking ==
    /\ \A k \in 1..(Len(chunks) - 1) :
          chunks[k + 1].offset = chunks[k].offset + chunks[k].next
    /\ \A k \in 1..Len(chunks) : chunks[k].next = 0 => k = Len(chunks)

\* the chunk loop has ended on a chunk with next = 0 after two other chunks
C17_Witness ==
    /\ pc = "pass1"
    /\ Len(chunks) >= 3
    /\ chunks[Len(chunks)].next = 0
    /\ chunks[1].next # 0

\* C18: the headers of two chunks of the table do not overlap, and offsets
\* increase strictly along the table
C18_NoHeaderOverlap ==
    \A j, k \in 1..Len(chunks) :
        j < k => chunks[j].offset + 16 <= chunks[k].offset

\* the geometry pass is about to process chunks[ci], whose payload lies in
\* the buffer and is not empty
Processes(name) ==
    /\ pc = "pass2"
    /\ ci <= Len(chunks)
    /\ chunks[ci].name = name
    /\ chunks[ci].size > 0
    /\ chunks[ci].offset >= 0
    /\ chunks[ci].offset + 16 + chunks[ci].size <= Len(data)

\* no stride of 32, 24, 20, 16, 12 qualifies for the size
MatchesNoStride(size) ==
    \A i \in 1..5 : ~IsCandidate(size, StridePriority[i])

\* C19: once the geometry pass has processed a vertex chunk whose size
\* matches no candidate stride, its category has no pending vertex buffer
C19_DetectorFailureClears ==
    [][ \A cat \in Categories :
          (Processes(VertexTag(cat)) /\ MatchesNoStride(chunks[ci].size))
             => ~current'[cat].isSet ]_vars

\* a face chunk is processed against a pending vertex buffer of its category
ConsumesPending(cat) == Processes(FaceTag(cat)) /\ current[cat].isSet

\* the first three parts of C20: a face chunk processed against a pending
\* buffer leaves none pending; a face chunk without a pending buffer emits
\* no mesh; a mesh is only ever emitted, one at a time, by a face chunk
\* processed against a pending buffer
PendingConsumedOnce ==
    [][ /\ \A cat \in Categories :
              /\ ConsumesPending(cat) => ~current'[cat].isSet
              /\ (Processes(FaceTag(cat)) /\ ~current[cat].isSet)
                    => meshes' = meshes
        /\ (pc = "pass2" /\ meshes' # meshes)
              => /\ \E cat \in Categories : ConsumesPending(cat)
                 /\ Len(meshes') = Len(meshes) + 1 ]_vars

\* C20: PendingConsumedOnce, and a vertex chunk that is processed replaces
\* the pending buffer of its category by its own, of size / stride vertices
C20_OneBufferOneMesh ==
    [][ /\ \A cat \in Categories :
              /\ ConsumesPending(cat) => ~current'[cat].isSet
              /\ (Processes(FaceTag(cat)) /\ ~current[cat].isSet)
                    => meshes' = meshes
              /\ (Processes(VertexTag(cat)) /\ current[cat].isSet)
                    => /\ current'[cat].isSet
                       /\ \E i \in 1..5 :
                             current'[cat].count * StridePriority[i]
                                = chunks[ci].size
        /\ (pc = "pass2" /\ meshes' # meshes)
              => /\ \E cat \in Categories : ConsumesPending(cat)
                 /\ Len(meshes') = Len(meshes) + 1 ]_vars

\* the vertex tag and the face tag of each category
CategoryTags ==
    [render |-> [v |-> XTRV, f |-> ECAF],
     collision |-> [v |-> XTVC, f |-> ECFC],
     shadow |-> [v |-> XTVS, f |-> CAFS]]

ChunkNames == [k \in 1..Len(chunks) |-> chunks[k].name]

\* C21: the step of the geometry pass that processes a vertex or face chunk
\* of a category leaves the pending buffers and counts of the other two
\* categories as they were; a mesh is only emitted by a face chunk from the
\* pending buffer of the face chunk's own category; XTRV, ECFC gives no
\* mesh; XTRV, XTVC, ECFC, ECAF gives a collision mesh and a render mesh
C21_CategoryIndependence ==
    /\ [][ /\ \A cat \in Categories :
                 (/\ pc = "pass2"
                  /\ ci <= Len(chunks)
                  /\ chunks[ci].name \in {CategoryTags[cat].v, CategoryTags[cat].f})
                    => \A other \in Categories \ {cat} :
                          current'[other] = current[other]
           /\ (pc = "pass2" /\ meshes' # meshes)
                 => \E cat \in Categories :
                       /\ chunks[ci].name = CategoryTags[cat].f
                       /\ current[cat].isSet
                       /\ meshes'[Len(meshes')].type = cat
                       /\ meshes'[Len(meshes')].vertices = current[cat].vertices
                       /\ meshes'[Len(meshes')].vertexCount = current[cat].count
         ]_vars
    /\ [](pc = "done" /\ ChunkNames = <<XTRV, ECFC>> => meshes = <<>>)
    /\ [](pc = "done" /\ data \in InterleavedInputs
             => /\ Len(meshes) = 2
                /\ meshes[1].type = "collision"
                /\ meshes[2].type = "render")

\* XTRV, XTVC, ECFC, ECAF has been parsed: while the collision face chunk was
\* processed the render vertices stayed pending, and both meshes came out
C21_Witness ==
    /\ pc = "done"
    /\ outcome = "Model"
    /\ ChunkNames = <<XTRV, XTVC, ECFC, ECAF>>
    /\ Len(meshes) = 2
    /\ meshes[1].type = "collision"
    /\ meshes[2].type = "render"
    /\ meshes[2].vertexCount = 3

\* C22: the k-th mesh (from 0) is named <its category>_mesh_<k>; the counter
\* is the number of meshes emitted, it grows by 1 with each mesh and not at
\* all otherwise; a mesh is appended after those of the chunks before it
C22_MeshNaming ==
    /\ [](/\ meshCounter = Len(meshes)
          /\ \A k \in 1..Len(meshes) :
                /\ meshes[k].type \in Categories
                /\ meshes[k].name = <<meshes[k].type, "mesh", k - 1>>)
    /\ [][ pc = "pass2" =>
             /\ ci' >= ci
             /\ \/ meshes' = meshes /\ meshCounter' = meshCounter
                \/ /\ ci' = ci + 1
                   /\ chunks[ci].name \in {ECAF, ECFC, CAFS}
                   /\ Len(meshes') = Len(meshes) + 1
                   /\ SubSeq(meshes', 1, Len(meshes)) = meshes
                   /\ meshCounter' = meshCounter + 1 ]_vars

\* a collision mesh numbered 0 and a render mesh numbered 1 were emitted
C22_Witness ==
    /\ pc = "done"
    /\ Len(meshes) = 2
    /\ meshes[1].name = <<"collision", "mesh", 0>>
    /\ meshes[2].name = <<"render", "mesh", 1>>

RECURSIVE SumOver(_, _)
SumOver(ms, field) ==
    IF ms = <<>> THEN 0 ELSE Head(ms)[field] + SumOver(Tail(ms), field)

\* C23: in a Model returned, the totals are the sums of the meshes' vertex
\* and triangle counts, and each mesh has 3 floats per vertex, 3 indices
\* per triangle and at least one triangle
C23_AggregateConsistency ==
    (pc = "done" /\ outcome = "Model") =>
        /\ totalVertices = SumOver(meshes, "vertexCount")
        /\ totalTriangles = SumOver(meshes, "triangleCount")
        /\ \A k \in 1..Len(meshes) :
              /\ Len(meshes[k].vertices) = meshes[k].vertexCount * 3
              /\ Len(meshes[k].indices) = meshes[k].triangleCount * 3
              /\ meshes[k].triangleCount >= 1

\* a Model with two meshes was returned, one of them with several vertices
C23_Witness ==
    /\ pc = "done"
    /\ outcome = "Model"
    /\ Len(meshes) = 2
    /\ totalVertices = 4
    /\ totalTriangles = 2
    /\ meshes[2].vertexCount = 3

(***************************************************************************)
(* SpecTwin: MEFParser.parse on a buffer, then on a second buffer that     *)
(* differs from it only in payload bytes of HSEM and D3DR chunks           *)
(***************************************************************************)
\* chunk bodies; the metadata ones come in two variants of the same length
TwinKinds(variant) ==
    << [name |-> HSEM, size |-> 16,
        payload |-> IF variant = 1 THEN Int32Bytes(3) \o Zeros(12)
                    ELSE Int32Bytes(7) \o Int32Bytes(-1)
                           \o Float32Bytes(5) \o Float32Bytes(6)],
       [name |-> HSEM, size |-> 8,
        payload |-> IF variant = 1 THEN Zeros(8)
                    ELSE Int32Bytes(9) \o Int32Bytes(9)],
       [name |-> D3DR, size |-> 8,
        payload |-> IF variant = 1 THEN Int32Bytes(2) \o Int32Bytes(3)
                    ELSE Int32Bytes(40) \o Int32Bytes(50)],
       [name |-> XTRV, size |-> 60,
        payload |-> FloatTriple(1, 0, 0) \o FloatTriple(0, 1, 0)
                      \o FloatTriple(0, 0, 2) \o FloatTriple(1, 1, 1)
                      \o FloatTriple(2, 2, 2)],
       [name |-> ECAF, size |-> 12, payload |-> Tri(0, 1, 2) \o Tri(3, 1, 0)],
       [name |-> XTVC, size |-> 12, payload |-> FloatTriple(1, 2, 3)],
       [name |-> ECFC, size |-> 8, payload |-> Tri(0, 0, 0) \o <<0, 0>>] >>

\* the file made of the chunks picked, in one variant
TwinFile(picks, variant) ==
    WellFormed([i \in 1..Len(picks) |-> TwinKinds(variant)[picks[i]]])

TwinPicks == SeqsUpTo(1..7, MaxChain)

InitTwin ==
    /\ \E picks \in TwinPicks :
          /\ ParserStart(TwinFile(picks, 1), "ready")
          /\ twin = [NoTwin EXCEPT !.data = TwinFile(picks, 2), !.parsed = FALSE]
    /\ ConverterIdle
    /\ ArchiveIdle
    /\ DetectIdle

\* parse() has ended on the first buffer: what it did is kept, and a new
\* MEFParser is made on the second buffer
ParseTwin ==
    /\ pc = "done"
    /\ ~twin.parsed
    /\ twin' = [data |-> data, parsed |-> TRUE, outcome |-> outcome,
                meshes |-> meshes, totalVertices |-> totalVertices,
                totalTriangles |-> totalTriangles]
    /\ data' = twin.data
    /\ offset' = 0
    /\ debugInfo' = <<>>
    /\ pc' = "ready"
    /\ outcome' = "none"
    /\ fileSize' = 0
    /\ chunks' = <<>>
    /\ loopIters' = 0
    /\ ci' = 1
    /\ modelInfo' = EmptyInfo
    /\ current' = [cat \in Categories |-> NoPending]
    /\ meshes' = <<>>
    /\ totalVertices' = 0
    /\ totalTriangles' = 0
    /\ meshCounter' = 0
    /\ lastFace' = NoFace
    /\ UNCHANGED returned
    /\ UNCHANGED <<convVars, resVars, detVars>>

NextTwin ==
    \/ ParseBegin
    \/ ReadChunk
    \/ FirstPassStep
    \/ SecondPassStep
    \/ ParseTwin

SpecTwin == InitTwin /\ [][NextTwin]_vars

(***************************************************************************)
(* Claims about two buffers, checked under SpecTwin                        *)
(***************************************************************************)
\* a and b differ at most in payload bytes of HSEM and D3DR chunks of the
\* chunk table
DiffersOnlyInMetadata(a, b, table) ==
    /\ Len(a) = Len(b)
    /\ \A i \in 1..Len(a) :
          a[i] # b[i] =>
             \E k \in 1..Len(table) :
                /\ table[k].name \in {HSEM, D3DR}
                /\ table[k].offset + 16 < i
                /\ i <= table[k].offset + 16 + table[k].size

\* C24: parse gives the same meshes and totals on two buffers that differ
\* only in payload bytes of HSEM and D3DR chunks
C24_MetadataNoninterference ==
    (/\ pc = "done"
     /\ twin.parsed
     /\ twin.outcome # "none"
     /\ DiffersOnlyInMetadata(twin.data, data, chunks))
       => /\ outcome = twin.outcome
          /\ meshes = twin.meshes
          /\ totalVertices = twin.totalVertices
          /\ totalTriangles = twin.totalTriangles

\* the first pass changes only modelInfo, the debug log and the cursor
FirstPassFrame ==
    [][ pc = "pass1" =>
          /\ chunks' = chunks
          /\ current' = current
          /\ meshes' = meshes
          /\ meshCounter' = meshCounter
          /\ totalVertices' = totalVertices
          /\ totalTriangles' = totalTriangles ]_vars

(***************************************************************************)
(* Further claims about convertToMEF, checked under SpecCodec              *)
(***************************************************************************)
\* 12, plus 12 if there is a normal, plus 8 if there is a UV
ClaimedStride(od) ==
    12 + (IF od.normals # <<>> THEN 12 ELSE 0) + (IF od.uvs # <<>> THEN 8 ELSE 0)

\* C25: the XTRV chunk of the buffer returned (header at offset 8, payload
\* at offset 24) declares vertexCount * stride bytes, and the position of
\* vertex i is written at payload offset i * stride
C25_VertexRecordLayout ==
    convOutcome = "ok" =>
        LET stride == ClaimedStride(objData)
            count == Len(objData.vertices)
        IN  /\ Slice(mefBuffer, 8, 4) = XTRV
            /\ GetInt32(mefBuffer, 12) = count * stride
            /\ \A i \in 0..(count - 1) :
                  Slice(mefBuffer, 24 + i * stride, 12)
                     = FloatTriple(objData.vertices[i + 1][1],
                                   objData.vertices[i + 1][2],
                                   objData.vertices[i + 1][3])

(***************************************************************************)
(* Further claims about RESArchiveBuilder.build, checked under SpecArchive *)
(***************************************************************************)
\* the least multiple of 4 that is at least n
RoundUp4(n) == CHOOSE m \in n..(n + 3) : m % 4 = 0

\* bytes of the UTF-8 form of a string of code points below 2048
Utf8Length(str) ==
    Len(str) + Cardinality({i \in 1..Len(str) : str[i] >= 128})

\* from offset p on, buf holds for each file of fs a NAME record and then
\* its BODY record, with the fields and the alignment C26 states, and
\* nothing after the last
RECURSIVE EntriesLaidOut(_, _, _)
EntriesLaidOut(buf, p, fs) ==
    IF fs = <<>> THEN p = Len(buf)
    ELSE LET nameLength == Utf8Length(Head(fs).name) + 1
             toBody == 16 + RoundUp4(nameLength)
             body == p + toBody
             bodySize == 16 + RoundUp4(Len(Head(fs).data))
         IN  /\ body + bodySize <= Len(buf)
             /\ p % 4 = 0
             /\ Slice(buf, p, 4) = NAME_SIG
             /\ GetUint32(buf, p + 4) = nameLength
             /\ GetUint32(buf, p + 12) = toBody
             /\ body % 4 = 0
             /\ Slice(buf, body, 4) = BODY_SIG
             /\ GetUint32(buf, body + 4) = Len(Head(fs).data)
             /\ GetUint32(buf, body + 12) = bodySize
             /\ Slice(buf, body + 16, Len(Head(fs).data)) = Head(fs).data
             /\ EntriesLaidOut(buf, body + bodySize, Tail(fs))

\* C26: the buffer build returns holds, from offset 20 on, a NAME record
\* immediately followed by its BODY record for each file, with the offset
\* and size fields and the 4-byte alignment stated, and its archive-size
\* field is the length of the buffer
C26_ArchiveLayout ==
    resPc # "adding" =>
        /\ Len(archiveBuffer) >= 20
        /\ GetUint32(archiveBuffer, 4) = Len(archiveBuffer)
        /\ EntriesLaidOut(archiveBuffer, 20, files)

\* an archive of two files was built; the first has a name and a payload
\* whose lengths are not multiples of 4
C26_Witness ==
    /\ resPc = "built"
    /\ Len(files) = 2
    /\ (Utf8Length(files[1].name) + 1) % 4 # 0
    /\ Len(files[1].data) % 4 # 0
    /\ Len(archiveBuffer) > 20

(***************************************************************************)
(* Further claims about MEFParser.parse, checked under SpecParse           *)
(***************************************************************************)
\* the smaller of two integers
Min(a, b) == IF a <= b THEN a ELSE b

\* C27: every recorded chunk has its header wholly inside the buffer, at an
\* offset of at least 20 and below the declared size and the buffer length;
\* the first chunk is at 20; no chunk is recorded when the declared size is
\* at most 20 or the buffer is shorter than 36 bytes
C27_ChunkTableBounds ==
    /\ \A i \in 1..Len(chunks) :
          /\ 20 <= chunks[i].offset
          /\ chunks[i].offset < Min(fileSize, Len(data))
          /\ chunks[i].offset + 16 <= Len(data)
    /\ chunks # <<>> => chunks[1].offset = 20
    /\ (pc # "ready" /\ (fileSize <= 20 \/ Len(data) < 36)) => chunks = <<>>

\* the part of C27 that the chunk loop keeps: headers inside the buffer
\* and below the declared size, the first one at 20
ChunkTableUpperBounds ==
    /\ \A i \in 1..Len(chunks) :
          /\ 0 <= chunks[i].offset
          /\ chunks[i].offset < Min(fileSize, Len(data))
          /\ chunks[i].offset + 16 <= Len(data)
    /\ chunks # <<>> => chunks[1].offset = 20
    /\ (pc # "ready" /\ (fileSize <= 20 \/ Len(data) < 36)) => chunks = <<>>

\* the record size C28 states: 8 bytes for collision faces, 6 otherwise
ClaimedRecordSize(cat) == IF cat = "collision" THEN 8 ELSE 6

\* C28: a face chunk of declared size S >= 0 at payload offset p whose loop
\* ran to its end read exactly floor(S / R) triangles, triangle k from
\* p + k * R, and read no byte outside [p, p + S)
C28_FaceReadsInPayload ==
    (lastFace.cat # "none" /\ lastFace.ok /\ chunks[lastFace.chunk].size >= 0) =>
        LET p == chunks[lastFace.chunk].offset + 16
            S == chunks[lastFace.chunk].size
            R == ClaimedRecordSize(lastFace.cat)
        IN  /\ lastFace.firstRead = p
            /\ lastFace.iterations = S \div R
            /\ lastFace.endRead = p + lastFace.iterations * R
            /\ lastFace.iterations > 0 =>
                   p + (lastFace.iterations - 1) * R + 6 <= p + S

\* the part of C28 that holds: triangle k is read from p + k * R, and when
\* S is a multiple of R, S / R triangles are read and none outside the payload
FaceReadsWhenMultiple ==
    (lastFace.cat # "none" /\ lastFace.ok /\ chunks[lastFace.chunk].size >= 0) =>
        LET p == chunks[lastFace.chunk].offset + 16
            S == chunks[lastFace.chunk].size
            R == ClaimedRecordSize(lastFace.cat)
        IN  /\ lastFace.firstRead = p
            /\ lastFace.endRead = p + lastFace.iterations * R
            /\ S % R = 0 =>
                   /\ lastFace.iterations = S \div R
                   /\ lastFace.iterations > 0 =>
                          p + (lastFace.iterations - 1) * R + 6 <= p + S

\* C29: detectVertexFormat applied to the payload size of the vertex chunk
\* convertToMEF wrote returns the stride createXTRVChunk used and the number
\* of vertices it wrote
C29_StrideAgreement ==
    convOutcome = "ok" =>
        LET detected == detectVertexFormat(GetInt32(mefBuffer, 12))
        IN  /\ Len(objData.vertices) >= 1
            /\ VertexStride(objData) \in {12, 20, 24, 32}
            /\ GetInt32(mefBuffer, 12)
                  = Len(objData.vertices) * VertexStride(objData)
            /\ detected.stride = VertexStride(objData)
            /\ detected.vertexCount = Len(objData.vertices)

\* the part of C29 that holds: the detector answers with a stride that is at
\* least the encoder's and a count that is at most the encoder's
DetectedStrideAtLeastEncoded ==
    convOutcome = "ok" =>
        LET detected == detectVertexFormat(GetInt32(mefBuffer, 12))
        IN  /\ GetInt32(mefBuffer, 12)
                  = Len(objData.vertices) * VertexStride(objData)
            /\ detected.stride >= VertexStride(objData)
            /\ detected.stride * detected.vertexCount
                  = Len(objData.vertices) * VertexStride(objData)

(***************************************************************************)
(* Termination of RESArchiveReader.parse.  parse is synchronous: once the  *)
(* entry loop is entered, its next iteration is always taken, which is     *)
(* weak fairness of ReaderEntry.                                           *)
(***************************************************************************)
SpecReaderFair == SpecReader /\ WF_vars(ReaderEntry)

\* C30: an iteration of the entry loop that does not leave the loop moves
\* the read offset forward by at least 16 bytes from the start of the entry
\* it read, and the loop, once entered, is left
C30_DecodeTerminates ==
    /\ [][(resPc = "reading" /\ resPc' = "reading")
             => resOffset' >= resOffset + 16]_vars
    /\ (resPc = "reading") ~> (resPc = "done")

\* parse returned after two iterations that each read an entry and went on
C30_Witness ==
    /\ resPc = "done"
    /\ resOutcome = "ok"
    /\ Len(resArchive.files) = 2
    /\ resOffset >= 20 + 2 * 16

================================================================================
